---- MODULE Spec2Model ----
(***************************************************************************)
(* State-machine model of the WhatsApp media decryption service:           *)
(*   MediaDecryption (expandMediaKey, decryptData, secureKeyCleanup),      *)
(*   MediaDownload (downloadMedia, validateUrl) and the two decrypt        *)
(*   request handlers (index.js POST /api/v1/decrypt, routes/media POST    *)
(*   /decrypt).                                                            *)
(*                                                                         *)
(* Byte strings are sequences of 0..255.  The runtime's primitives         *)
(* (HMAC-SHA-256, the AES block transform) are replaced by small           *)
(* deterministic stand-ins with the same interface and sizes; everything   *)
(* the repository's code builds around them (HKDF call and slicing, tag    *)
(* split and comparison, CBC chaining, PKCS#7 unpadding, error wrapping,   *)
(* retry loop) is modelled step by step.                                   *)
(***************************************************************************)
EXTENDS Integers, Sequences, FiniteSets, TLC

VARIABLES
    kIn,        \* SpecKey: the (mediaKeyBase64, mediaType) under test
    kCalls,     \* SpecKey: results of the expandMediaKey calls made so far
    kClean,     \* SpecKey: key set as left in memory by secureKeyCleanup
    kLook,      \* SpecKey: what getContentType / getFileExtension returned
    dIn,        \* SpecDecrypt: the (payload, key set) under test
    dOut,       \* SpecDecrypt: outcome of decryptData on dIn
    caller,     \* Spec: who runs: "index", "media" (a handler), "direct", "validate"
    req,        \* Spec: the request body (mediaUrl, mediaKey, mediaType)
    opts,       \* Spec: downloadMedia options (retries, retryDelay)
    pc,         \* Spec: "idle", "attempt", "sleep", "mfetch", "done"
    attempt,    \* Spec: downloadMedia's loop counter
    lastError,  \* Spec: downloadMedia's lastError
    log,        \* Spec: how each fetch made so far settled
    sleeps,     \* Spec: the backoff delays slept so far
    dl,         \* Spec: what downloadMedia (or validateUrl) returned or threw
    hk,         \* Spec: the key set the handler created, and its cleanup calls
    resp,       \* Spec: the reply sent
    fsDir,      \* SpecReaper: tempDir, file name -> mtime (Gone when absent)
    fs0,        \* SpecReaper: tempDir as it was when the server started
    clock,      \* SpecReaper: what Date.now() returns
    scans,      \* SpecReaper: the cleanupOldFiles calls, by slot
    env,        \* SpecReaper: whether another actor or an I/O fault interfered
    proc        \* SpecReaper: the server process and its shutdown

keyVars == <<kIn, kCalls, kClean, kLook>>
decVars == <<dIn, dOut>>
netVars == <<caller, req, opts, pc, attempt, lastError, log, sleeps, dl, hk, resp>>
reapVars == <<fsDir, fs0, clock, scans, env, proc>>
vars == <<kIn, kCalls, kClean, kLook, dIn, dOut,
          caller, req, opts, pc, attempt, lastError, log, sleeps, dl, hk, resp,
          fsDir, fs0, clock, scans, env, proc>>

----------------------------------------------------------------------------
(* Bytes                                                                    *)

\* expandedKey.slice(0, 32)
CipherKeyLen == 32
\* expandedKey.slice(32, 64)
MacKeyEnd == 64
\* expandedKey.slice(64, 80)
IvEnd == 80
\* crypto.hkdfSync(..., 112)
ExpandedLen == 112
\* mediaKey.length !== 32
MediaKeyLen == 32
\* digest size of sha256
HashLen == 32

Zeros(n) == [i \in 1..n |-> 0]

AllZero(s) == \A i \in 1..Len(s) : s[i] = 0

\* Buffer.slice(a, b) / ArrayBuffer.slice(a, b): bytes a .. b-1 (0-based),
\* clamped to the length.
Slice(s, a, b) ==
    LET lo == IF a > Len(s) THEN Len(s) ELSE a
        hi == IF b > Len(s) THEN Len(s) ELSE b
    IN  IF hi <= lo THEN <<>> ELSE SubSeq(s, lo + 1, hi)

RECURSIVE XorBits(_, _, _)
XorBits(a, b, n) ==
    IF n = 0 THEN 0
    ELSE ((a + b) % 2) + 2 * XorBits(a \div 2, b \div 2, n - 1)

Xor8(a, b) == XorBits(a, b, 8)

----------------------------------------------------------------------------
(* Runtime primitives (stand-ins)                                           *)

\* Position-weighted byte sum of s[lo..hi], by halving.
RECURSIVE WeightedSum(_, _, _)
WeightedSum(s, lo, hi) ==
    IF lo > hi THEN 0
    ELSE IF lo = hi THEN s[lo] * (((3 * lo * lo + 5 * lo + 1) % 97) + 1)
    ELSE WeightedSum(s, lo, (lo + hi) \div 2) + WeightedSum(s, ((lo + hi) \div 2) + 1, hi)

Absorb(acc, s) == (acc * 33 + WeightedSum(s, 1, Len(s)) + 257 * Len(s) + 1) % 65521

\* The 32 digest bytes drawn from the absorbed state m.
Digest(m) ==
    SubSeq([i \in 1..HashLen |->
              ((m + 131 * i) * (2 * i + 1) + (m \div 256)) % 256], 1, HashLen)

\* crypto.createHmac('sha256', key).update(msg).digest(): a deterministic
\* 32-byte keyed digest of (key, msg).
HmacSha256(key, msg) == Digest(Absorb(Absorb(5381, key), msg))

\* crypto.hkdfSync('sha256', ikm, salt, info, length): RFC 5869 extract and
\* expand over the HMAC above: T(n) = HMAC(prk, T(n-1) | info | n).
RECURSIVE HkdfBlocks(_, _, _, _, _)
HkdfFrom(prk, info, t, n, need) ==
    t \o HkdfBlocks(prk, info, t, n + 1, need - HashLen)

HkdfBlocks(prk, info, prev, n, need) ==
    IF need <= 0 THEN <<>>
    ELSE HkdfFrom(prk, info, HmacSha256(prk, prev \o info \o <<n>>), n, need)

hkdfSync(ikm, salt, info, length) ==
    SubSeq(HkdfBlocks(HmacSha256(salt, ikm), info, <<>>, 1, length), 1, length)

----------------------------------------------------------------------------
(* Base64 text: a sequence of symbols, 0..63 for the alphabet characters   *)
(* and Pad for '='.                                                         *)

Pad == 64

\* The symbols before the first '='.
SextetsBeforePad(s) ==
    LET pads == {i \in 1..Len(s) : s[i] = Pad}
    IN  IF pads = {} THEN s
        ELSE SubSeq(s, 1, (CHOOSE i \in pads : \A j \in pads : i <= j) - 1)

\* Value of bits [8(j-1), 8j) of the sextet stream q.
ByteAt(q, j) ==
    LET bit(p) == (q[(p \div 6) + 1] \div (2 ^ (5 - (p % 6)))) % 2
        b0 == 8 * (j - 1)
    IN  bit(b0) * 128 + bit(b0 + 1) * 64 + bit(b0 + 2) * 32 + bit(b0 + 3) * 16
        + bit(b0 + 4) * 8 + bit(b0 + 5) * 4 + bit(b0 + 6) * 2 + bit(b0 + 7)

\* The floor(6n/8) whole bytes of the sextet stream q.
BytesOfSextets(q) ==
    SubSeq([j \in 1..((6 * Len(q)) \div 8) |-> ByteAt(q, j)], 1, (6 * Len(q)) \div 8)

\* Buffer.from(text, 'base64'): decoding stops at the first '=', a trailing
\* partial group is dropped.
Base64Decode(text) == BytesOfSextets(SextetsBeforePad(text))

----------------------------------------------------------------------------
(* MediaDecryption.expandMediaKey                                           *)

\* const applicationInfo = { ... }
applicationInfo ==
    [image    |-> <<87, 104, 97, 116, 115, 65, 112, 112, 32, 73, 109, 97, 103,
                    101, 32, 75, 101, 121, 115>>,
     video    |-> <<87, 104, 97, 116, 115, 65, 112, 112, 32, 86, 105, 100, 101,
                    111, 32, 75, 101, 121, 115>>,
     audio    |-> <<87, 104, 97, 116, 115, 65, 112, 112, 32, 65, 117, 100, 105,
                    111, 32, 75, 101, 121, 115>>,
     document |-> <<87, 104, 97, 116, 115, 65, 112, 112, 32, 68, 111, 99, 117,
                    109, 101, 110, 116, 32, 75, 101, 121, 115>>]

\* Property names every object literal inherits from Object.prototype.
InheritedProps ==
    {"constructor", "toString", "valueOf", "hasOwnProperty", "__proto__"}

\* applicationInfo[mediaType]: an own entry, else an inherited member of
\* Object.prototype (a function or object, truthy), else undefined.
InfoLookup(mediaType) ==
    IF mediaType \in DOMAIN applicationInfo
    THEN [kind |-> "string", val |-> applicationInfo[mediaType]]
    ELSE IF mediaType \in InheritedProps
    THEN [kind |-> "inherited", val |-> <<>>]
    ELSE [kind |-> "undefined", val |-> <<>>]

Throw(type, msg) == [kind |-> "throw", errType |-> type, msg |-> msg]

\* An ArrayBuffer as returned by hkdfSync and ArrayBuffer.prototype.slice.
ArrayBuf(bytes) == [kind |-> "ArrayBuffer", bytes |-> bytes]

\* Mutant of KeySetOf: the iv slice starts inside the macKey range.
KeySetOf_Overlap(expandedKey) ==
    [kind |-> "return",
     okm  |-> expandedKey,
     keys |-> [cipherKey |-> ArrayBuf(Slice(expandedKey, 0, CipherKeyLen)),
               macKey    |-> ArrayBuf(Slice(expandedKey, CipherKeyLen, MacKeyEnd)),
               iv        |-> ArrayBuf(Slice(expandedKey, MacKeyEnd - 16, MacKeyEnd))]]

\* The object expandMediaKey returns: three slices of the expansion.
\* okm keeps the 112-byte expansion itself, which the object does not hold.
KeySetOf(expandedKey) ==
    [kind |-> "return",
     okm  |-> expandedKey,
     keys |-> [cipherKey |-> ArrayBuf(Slice(expandedKey, 0, CipherKeyLen)),
               macKey    |-> ArrayBuf(Slice(expandedKey, CipherKeyLen, MacKeyEnd)),
               iv        |-> ArrayBuf(Slice(expandedKey, MacKeyEnd, IvEnd))]]

\* The try block of expandMediaKey after the base64 decoding and the
\* applicationInfo lookup.
ExpandChecked(mediaKey, info) ==
    IF Len(mediaKey) # MediaKeyLen
    THEN Throw("ValidationError", "Invalid media key length")
    ELSE IF info.kind = "undefined"
    THEN Throw("ValidationError", "Unsupported media type")
    ELSE IF info.kind # "string"
    THEN \* hkdfSync rejects an info argument that is a function or a
         \* plain object
         Throw("TypeError", "The info argument must be of type string")
    ELSE KeySetOf(hkdfSync(mediaKey, Zeros(32), info.val, ExpandedLen))

\* The try block of expandMediaKey.
ExpandTry(mediaKeyBase64, mediaType) ==
    ExpandChecked(Base64Decode(mediaKeyBase64), InfoLookup(mediaType))

\* The catch block of expandMediaKey: a ValidationError is rethrown,
\* anything else is wrapped in a DecryptionError.
ExpandCatch(r) ==
    IF r.kind = "throw" /\ r.errType # "ValidationError"
    THEN Throw("DecryptionError", "Failed to expand media key")
    ELSE r

expandMediaKey(mediaKeyBase64, mediaType) ==
    ExpandCatch(ExpandTry(mediaKeyBase64, mediaType))

----------------------------------------------------------------------------
(* AES-256-CBC with PKCS#7 padding, as crypto.createDecipheriv provides it  *)

\* cipher block size of aes-256-cbc
BlockLen == 16
\* encryptedData.slice(0, 10)
MacLen == 10

\* Stand-in for the AES block transform: a keyed byte permutation of one
\* 16-byte block (rotate the positions by 5, add key material per byte).
AesEncryptBlock(key, b) ==
    SubSeq([i \in 1..BlockLen |->
              (b[((i + 4) % BlockLen) + 1] + key[i] + 3 * key[i + BlockLen] + i) % 256],
           1, BlockLen)

\* Its inverse.
AesDecryptBlock(key, c) ==
    SubSeq([j \in 1..BlockLen |->
              LET i == ((j + 10) % BlockLen) + 1
              IN  (c[i] + 1024 - key[i] - 3 * key[i + BlockLen] - i) % 256],
           1, BlockLen)

XorBlock(a, b) == SubSeq([i \in 1..BlockLen |-> Xor8(a[i], b[i])], 1, BlockLen)

BlockOf(s, n) == SubSeq(s, BlockLen * (n - 1) + 1, BlockLen * n)

\* decipher.update(data) over whole blocks: P[n] = D(C[n]) xor C[n-1],
\* with C[0] = iv.
RECURSIVE CbcDecryptBlocks(_, _, _, _)
CbcDecryptBlocks(key, iv, c, n) ==
    IF n = 0 THEN <<>>
    ELSE CbcDecryptBlocks(key, iv, c, n - 1)
         \o XorBlock(AesDecryptBlock(key, BlockOf(c, n)),
                     IF n = 1 THEN iv ELSE BlockOf(c, n - 1))

\* decipher.final() with automatic padding: the last byte n of the last
\* block must be in 1..16 and the last n bytes must all equal n.
Pkcs7Ok(p) ==
    /\ Len(p) >= BlockLen
    /\ LET n == p[Len(p)]
       IN  /\ n >= 1
           /\ n <= BlockLen
           /\ \A i \in (Len(p) - n + 1)..Len(p) : p[i] = n

\* Mutant of Unpad: strips one byte less than the padding length.
Unpad_OffByOne(p) ==
    IF ~Pkcs7Ok(p)
    THEN Throw("Error", "bad decrypt")
    ELSE [kind |-> "return", data |-> SubSeq(p, 1, Len(p) - p[Len(p)] + 1)]

\* decipher.final(): checks and strips the padding of the decrypted blocks p.
Unpad(p) ==
    IF ~Pkcs7Ok(p)
    THEN Throw("Error", "bad decrypt")
    ELSE [kind |-> "return", data |-> SubSeq(p, 1, Len(p) - p[Len(p)])]

\* crypto.createDecipheriv('aes-256-cbc', key, iv), then
\* decipher.update(encryptedContent) followed by decipher.final().
Decipher(key, iv, c) ==
    IF Len(key) # 32
    THEN Throw("RangeError", "Invalid key length")
    ELSE IF Len(iv) # BlockLen
    THEN Throw("TypeError", "Invalid initialization vector")
    ELSE IF Len(c) = 0 \/ Len(c) % BlockLen # 0
    THEN Throw("Error", "wrong final block length")
    ELSE Unpad(CbcDecryptBlocks(key, iv, c, Len(c) \div BlockLen))

\* crypto.timingSafeEqual(a, b): throws when the lengths differ.
timingSafeEqual(a, b) ==
    IF Len(a) # Len(b)
    THEN Throw("RangeError", "Input buffers must have the same byte length")
    ELSE [kind |-> "return", data |-> (a = b)]

----------------------------------------------------------------------------
(* MediaDecryption.decryptData                                              *)

\* Mutant of AfterMacCheck: the cipher runs before the outcome of the tag
\* comparison is looked at.
AfterMacCheck_DecryptFirst(eq, encryptedContent, expandedKey) ==
    IF eq.kind = "throw"
    THEN eq @@ [cipherStarted |-> FALSE]
    ELSE IF ~eq.data
    THEN Throw("DecryptionError", "MAC verification failed") @@ [cipherStarted |-> TRUE]
    ELSE Decipher(expandedKey.cipherKey.bytes, expandedKey.iv.bytes, encryptedContent)
         @@ [cipherStarted |-> TRUE]

\* The try block of decryptData from the outcome eq of timingSafeEqual on.
\* cipherStarted records whether createDecipheriv was reached.
AfterMacCheck(eq, encryptedContent, expandedKey) ==
    IF eq.kind = "throw"
    THEN eq @@ [cipherStarted |-> FALSE]
    ELSE IF ~eq.data
    THEN Throw("DecryptionError", "MAC verification failed") @@ [cipherStarted |-> FALSE]
    ELSE Decipher(expandedKey.cipherKey.bytes, expandedKey.iv.bytes, encryptedContent)
         @@ [cipherStarted |-> TRUE]

\* First 10 bytes of HMAC-SHA-256(macKey, encryptedContent).
ExpectedMac(encryptedContent, expandedKey) ==
    Slice(HmacSha256(expandedKey.macKey.bytes, encryptedContent), 0, MacLen)

\* The try block of decryptData once the payload is split into
\* fileMac = encryptedData.slice(0, 10) and encryptedContent = slice(10).
DecryptSplit(fileMac, encryptedContent, expandedKey) ==
    AfterMacCheck(timingSafeEqual(fileMac, ExpectedMac(encryptedContent, expandedKey)),
                  encryptedContent, expandedKey)

\* The try block of decryptData.
DecryptTry(encryptedData, expandedKey) ==
    IF Len(encryptedData) < MacLen
    THEN Throw("DecryptionError", "File too small to be valid encrypted media")
         @@ [cipherStarted |-> FALSE]
    ELSE DecryptSplit(Slice(encryptedData, 0, MacLen),
                      Slice(encryptedData, MacLen, Len(encryptedData)), expandedKey)

\* Mutant of DecryptCatch: the caught error is rethrown as it is.
DecryptCatch_Rethrow(r) == r

\* The catch block of decryptData: a DecryptionError is rethrown, every
\* other error becomes one.
DecryptCatch(r) ==
    IF r.kind # "throw" \/ r.errType = "DecryptionError" THEN r
    ELSE IF r.msg = "bad decrypt"
    THEN [r EXCEPT !.errType = "DecryptionError",
                   !.msg = "Invalid media key or IV - decryption failed"]
    ELSE IF r.msg = "wrong final block length"
    THEN [r EXCEPT !.errType = "DecryptionError",
                   !.msg = "Invalid padding - file may be corrupted"]
    ELSE [r EXCEPT !.errType = "DecryptionError",
                   !.msg = "Unexpected decryption error"]

decryptData(encryptedData, expandedKey) ==
    DecryptCatch(DecryptTry(encryptedData, expandedKey))

----------------------------------------------------------------------------
(* MediaDecryption.secureKeyCleanup                                         *)

\* buf.fill(0): defined on Buffer and typed arrays; an ArrayBuffer has no
\* fill method, so the call throws a TypeError.
CanFill(buf) == buf.kind \in {"Buffer", "Uint8Array"}

Filled(buf) == [buf EXCEPT !.bytes = Zeros(Len(buf.bytes))]

\* secureKeyCleanup: fills cipherKey, macKey, iv in this order inside one
\* try block; the first throw ends the block and is only logged.
secureKeyCleanup(expandedKey) ==
    IF ~CanFill(expandedKey.cipherKey) THEN expandedKey
    ELSE LET k1 == [expandedKey EXCEPT !.cipherKey = Filled(@)]
         IN  IF ~CanFill(k1.macKey) THEN k1
             ELSE LET k2 == [k1 EXCEPT !.macKey = Filled(@)]
                  IN  IF ~CanFill(k2.iv) THEN k2
                      ELSE [k2 EXCEPT !.iv = Filled(@)]

----------------------------------------------------------------------------
(* MediaDecryption.getContentType / getFileExtension                        *)

\* contentTypes[mediaType] || 'application/octet-stream'
getContentType(mediaType) ==
    CASE mediaType = "image" -> "image/jpeg"
      [] mediaType = "video" -> "video/mp4"
      [] mediaType = "audio" -> "audio/mpeg"
      [] mediaType = "document" -> "application/pdf"
      [] mediaType \in InheritedProps -> "[object]"
      [] OTHER -> "application/octet-stream"

\* extensions[mediaType] || 'bin'
getFileExtension(mediaType) ==
    CASE mediaType = "image" -> "jpg"
      [] mediaType = "video" -> "mp4"
      [] mediaType = "audio" -> "mp3"
      [] mediaType = "document" -> "pdf"
      [] mediaType \in InheritedProps -> "[object]"
      [] OTHER -> "bin"

----------------------------------------------------------------------------
(* MediaDownload                                                            *)

\* retries = 3 (default option of downloadMedia)
DefaultRetries == 3
\* retryDelay = 1000 (default option of downloadMedia)
DefaultRetryDelay == 1000
\* retries: 3 (index.js handler)
IndexRetries == 3

\* const validHosts = [ ... ]
validHosts ==
    {"mmg.whatsapp.net", "mmg-fna.whatsapp.net", "media-frt3-1.cdn.whatsapp.net",
     "pps.whatsapp.net"}

\* A URL is [scheme, host]; scheme "" stands for a string new URL() rejects.
NoUrl == [scheme |-> "", host |-> ""]

\* MediaDownload.validateUrl: throws a plain Error for an unparsable or
\* non-https URL; a host outside validHosts is only logged.
validateUrl(url) ==
    IF url.scheme = ""
    THEN Throw("Error", "Invalid media URL: Invalid URL")
    ELSE IF url.scheme # "https"
    THEN Throw("Error", "Invalid media URL: URL must use HTTPS protocol")
    ELSE [kind |-> "return", data |-> TRUE, warned |-> url.host \notin validHosts]

\* node-fetch issues a request only for http: and https: URLs; for any
\* other URL the promise rejects with a TypeError and nothing is sent.
Fetchable(url) == url.scheme \in {"http", "https"}

\* The errors one GET attempt can end with inside the try block.
FetchError(kind) ==
    CASE kind = "http500" ->
           [errType |-> "NetworkError", msg |-> "HTTP 500: Internal Server Error",
            code |-> ""]
      [] kind = "refused" ->
           [errType |-> "FetchError", msg |-> "request failed, reason: connect ECONNREFUSED",
            code |-> "ECONNREFUSED"]
      [] kind = "timeout" ->
           [errType |-> "FetchError", msg |-> "network timeout", code |-> ""]
      [] kind = "protocol" ->
           [errType |-> "TypeError", msg |-> "Only HTTP(S) protocols are supported",
            code |-> ""]

\* Mutant of LoopCond: the loop gives up one attempt early.
LoopCond_StopEarly(attemptNo, retries) == attemptNo < retries

\* Mutant of LoopCond: one iteration too many.
LoopCond_OffByOne(attemptNo, retries) == attemptNo <= retries + 1

\* for (let attempt = 1; attempt <= retries; attempt++)
LoopCond(attemptNo, retries) == attemptNo <= retries

\* Mutant of AttemptStep: the same delay before every retry.
AttemptStep_FlatDelay(attemptNo, retries, retryDelay, outcome) ==
    IF outcome.ok
    THEN [exit |-> "return", value |-> outcome.body]
    ELSE [exit |-> "continue", error |-> outcome.err,
          sleeps |-> attemptNo < retries, delay |-> retryDelay]

\* Mutant of AttemptStep: a fully received body shorter than a tag is
\* treated as a failed attempt and retried.
AttemptStep_RetryShort(attemptNo, retries, retryDelay, outcome) ==
    IF outcome.ok /\ Len(outcome.body) >= 10
    THEN [exit |-> "return", value |-> outcome.body]
    ELSE [exit |-> "continue",
          error |-> IF outcome.ok
                    THEN [errType |-> "NetworkError", msg |-> "Response too small",
                          code |-> ""]
                    ELSE outcome.err,
          sleeps |-> attemptNo < retries, delay |-> retryDelay * attemptNo]

\* One iteration of the retry loop, given how the awaited fetch settled:
\* a fully received response is returned at once; a failure is kept as
\* lastError and followed by a sleep of retryDelay * attempt when
\* attempt < retries.
AttemptStep(attemptNo, retries, retryDelay, outcome) ==
    IF outcome.ok
    THEN [exit |-> "return", value |-> outcome.body]
    ELSE [exit |-> "continue", error |-> outcome.err,
          sleeps |-> attemptNo < retries, delay |-> retryDelay * attemptNo]

\* The statement after the loop.  With no iteration made lastError is
\* undefined and reading lastError.message throws a TypeError.
ThrowAfterLoop(retries, lastErr) ==
    IF lastErr.kind = "undefined"
    THEN Throw("TypeError", "Cannot read properties of undefined")
    ELSE [kind |-> "throw", errType |-> "NetworkError",
          msg |-> "Failed to download after attempts",
          embeds |-> lastErr.err.msg,
          originalError |-> lastErr.err]

----------------------------------------------------------------------------
(* Request handlers                                                         *)

NoKeys == [kind |-> "none"]

NoResult == [kind |-> "none"]

\* Key material a handler holds when it replies.
NoHandlerKeys == [created |-> FALSE, cleanups |-> 0, keys |-> NoKeys]

Embeds(error) == IF "embeds" \in DOMAIN error THEN error.embeds ELSE ""

\* error.code, undefined on errors that carry none.
Code(error) == IF "code" \in DOMAIN error THEN error.code ELSE ""

\* catch block of the index.js handler.
IndexErrorReply(error) ==
    IF error.errType = "ValidationError"
    THEN [kind |-> "reply", status |-> 400, error |-> "Validation failed",
          message |-> error.msg, details |-> "", embeds |-> Embeds(error)]
    ELSE IF error.errType = "NetworkError"
    THEN [kind |-> "reply", status |-> 502, error |-> "Network error",
          message |-> "Failed to download media file", details |-> error.msg,
          embeds |-> Embeds(error)]
    ELSE IF error.errType = "DecryptionError"
    THEN [kind |-> "reply", status |-> 422, error |-> "Decryption failed",
          message |-> "Invalid media key or corrupted file", details |-> error.msg,
          embeds |-> Embeds(error)]
    ELSE [kind |-> "reply", status |-> 500, error |-> "Internal server error",
          message |-> error.msg, details |-> "", embeds |-> Embeds(error)]

\* catch block of the routes/media handler.
MediaErrorReply(error) ==
    IF error.errType = "ValidationError"
    THEN [kind |-> "reply", status |-> 400, error |-> "Invalid input parameters",
          message |-> error.msg, details |-> "", embeds |-> ""]
    ELSE IF error.errType = "DecryptionError"
    THEN [kind |-> "reply", status |-> 422, error |-> "Decryption failed",
          message |-> "Invalid media key or corrupted file", details |-> "",
          embeds |-> ""]
    ELSE IF error.errType = "NetworkError" \/ Code(error) \in {"ENOTFOUND", "ECONNREFUSED"}
    THEN [kind |-> "reply", status |-> 502, error |-> "Network error",
          message |-> "Failed to download media file", details |-> "", embeds |-> ""]
    ELSE [kind |-> "reply", status |-> 500, error |-> "Internal server error",
          message |-> "Media processing failed", details |-> "", embeds |-> ""]

OkReply(mediaType, data) ==
    [kind |-> "reply", status |-> 200, error |-> "", message |-> "", details |-> "",
     embeds |-> "", contentType |-> getContentType(mediaType),
     extension |-> getFileExtension(mediaType), body |-> data]

\* if (!mediaUrl || !mediaKey || !mediaType)
MissingFields(r) == r.mediaUrl = NoUrl \/ r.mediaKey = <<>> \/ r.mediaType = ""

MissingFieldsReply ==
    [kind |-> "reply", status |-> 400, error |-> "Missing required fields",
     message |-> "", details |-> "", embeds |-> ""]

\* index.js handler after decryptData: a throw goes to the catch block with
\* the key set as it is; else headers, secureKeyCleanup, reply.send.
IndexAfterDecrypt(r, keys, decryptedData) ==
    IF decryptedData.kind = "throw"
    THEN [resp |-> IndexErrorReply(decryptedData),
          hk |-> [created |-> TRUE, cleanups |-> 0, keys |-> keys]]
    ELSE [resp |-> OkReply(r.mediaType, decryptedData.data),
          hk |-> [created |-> TRUE, cleanups |-> 1, keys |-> secureKeyCleanup(keys)]]

\* index.js handler after expandMediaKey.
IndexAfterExpand(r, data, expandedKey) ==
    IF expandedKey.kind = "throw"
    THEN [resp |-> IndexErrorReply(expandedKey), hk |-> NoHandlerKeys]
    ELSE IndexAfterDecrypt(r, expandedKey.keys, decryptData(data, expandedKey.keys))

\* index.js handler from the return of downloadMedia to its reply:
\* expandMediaKey, decryptData, headers, secureKeyCleanup, reply.send;
\* any throw goes to the catch block.
IndexAfterDownload(r, download) ==
    IF download.kind = "throw"
    THEN [resp |-> IndexErrorReply(download), hk |-> NoHandlerKeys]
    ELSE IndexAfterExpand(r, download.data, expandMediaKey(r.mediaKey, r.mediaType))

\* Body schema of the routes/media handler.
MediaSchemaOk(r) ==
    /\ r.mediaUrl.scheme = "https"
    /\ Len(r.mediaKey) >= 32
    /\ Len(r.mediaKey) <= 100
    /\ r.mediaType \in {"image", "video", "audio", "document"}

SchemaReply ==
    [kind |-> "reply", status |-> 400, error |-> "Bad Request",
     message |-> "body does not match schema", details |-> "", embeds |-> ""]

\* routes/media handler after decryptData; it never calls secureKeyCleanup.
MediaAfterDecrypt(r, held, decryptedData) ==
    IF decryptedData.kind = "throw"
    THEN [resp |-> MediaErrorReply(decryptedData), hk |-> held]
    ELSE [resp |-> OkReply(r.mediaType, decryptedData.data), hk |-> held]

\* routes/media handler from the settling of its single fetch to its reply.
MediaAfterFetch(r, held, outcome) ==
    IF ~outcome.ok
    THEN [resp |-> MediaErrorReply(outcome.err), hk |-> held]
    ELSE MediaAfterDecrypt(r, held, decryptData(outcome.body, held.keys))

----------------------------------------------------------------------------
(* Inputs                                                                   *)

\* Number of distinct 32-byte secrets tried.
NumSecrets == 2
\* Number of repeated expandMediaKey calls on the same input.
MaxCalls == 2

\* Base64 text of n sextets followed by one '='; sextet i is (i * seed) % 64.
B64Text(n, seed) == [i \in 1..(n + 1) |-> IF i = n + 1 THEN Pad ELSE (i * seed) % 64]

\* 43 sextets -> 32 bytes; seed 0 is the base64 text of 32 zero bytes.
ValidKeys == {B64Text(43, s) : s \in 0..(NumSecrets - 1)}

\* 42 sextets -> 31 bytes, 44 -> 33 bytes, 'test' -> 3 bytes, 22 -> 16 bytes.
BadKeys == {B64Text(42, 1), B64Text(44, 1), <<45, 30, 44, 45>>, B64Text(22, 3)}

KnownTypes == {"image", "video", "audio", "document"}

UnknownTypes == {"sticker", "IMAGE", "constructor", "toString", "__proto__"}

KeyInputs == [key : ValidKeys \cup BadKeys, type : KnownTypes \cup UnknownTypes]

\* Largest plaintext tried, in whole cipher blocks (one more byte is added).
MaxPlainBlocks == 1

\* PKCS#7 padding as the sender applies it: n = 16 - (len mod 16) bytes of value n.
Pkcs7Pad(p) ==
    LET n == BlockLen - (Len(p) % BlockLen)
    IN  p \o [i \in 1..n |-> n]

\* CBC encryption of whole blocks: C[n] = E(P[n] xor C[n-1]), C[0] = iv.
RECURSIVE CbcEncryptBlocks(_, _, _, _)
CbcEncryptBlocks(key, iv, p, n) ==
    IF n = 0 THEN <<>>
    ELSE LET before == CbcEncryptBlocks(key, iv, p, n - 1)
             prev == IF n = 1 THEN iv ELSE BlockOf(before, n - 1)
         IN  before \o AesEncryptBlock(key, XorBlock(BlockOf(p, n), prev))

\* AES-256-CBC + PKCS#7 encryption of plaintext p under (cipherKey, iv).
CbcEncrypt(keys, p) ==
    LET padded == Pkcs7Pad(p)
    IN  CbcEncryptBlocks(keys.cipherKey.bytes, keys.iv.bytes, padded,
                         Len(padded) \div BlockLen)

\* The media file format: first 10 bytes of HMAC(macKey, c), then c.
Seal(keys, c) == Slice(HmacSha256(keys.macKey.bytes, c), 0, MacLen) \o c

\* s with bit j (0 = lowest bit of the first byte) inverted.
FlipBit(s, j) ==
    LET i == (j \div 8) + 1
        w == 2 ^ (j % 8)
    IN  [s EXCEPT ![i] = IF (@ \div w) % 2 = 1 THEN @ - w ELSE @ + w]

\* s with byte i incremented modulo 256.
BumpByte(s, i) == [s EXCEPT ![i] = (@ + 1) % 256]

Plaintext(n) == [i \in 1..n |-> (7 * i + n) % 256]

PlainLens ==
    {n \in 0..(BlockLen * MaxPlainBlocks + 1) : n % BlockLen \in {0, 1, BlockLen - 1}}

\* Key sets produced by expandMediaKey for the valid inputs.
DecKeys == {expandMediaKey(k, t).keys : k \in ValidKeys, t \in KnownTypes}

DecInput(keys, p, shape, payload) ==
    [keys |-> keys, plain |-> p, shape |-> shape, payload |-> payload]

\* The payloads derived from ciphertext c of plaintext p and its sealed form.
PayloadsOf(keys, p, c, good) ==
    {DecInput(keys, p, "valid", good)}
    \cup {DecInput(keys, p, "tagflip", FlipBit(good, j)) : j \in 0..(8 * MacLen - 1)}
    \cup {DecInput(keys, p, "short", Slice(good, 0, n)) : n \in 0..(MacLen - 1)}
    \cup {DecInput(keys, p, "misaligned", Seal(keys, Slice(c, 0, Len(c) - 1))),
          DecInput(keys, p, "misaligned", Seal(keys, c \o <<7>>)),
          DecInput(keys, p, "emptybody", Seal(keys, <<>>)),
          DecInput(keys, p, "badpad", Seal(keys, BumpByte(c, Len(c)))),
          DecInput(keys, p, "bodyflip", BumpByte(good, MacLen + 1))}

\* The payloads tried for one key set and one plaintext.
PayloadsFor(keys, p) ==
    PayloadsOf(keys, p, CbcEncrypt(keys, p), Seal(keys, CbcEncrypt(keys, p)))

DecInputs == UNION {PayloadsFor(k, Plaintext(n)) : k \in DecKeys, n \in PlainLens}

\* Largest retries option tried in direct downloadMedia calls.
MaxRetries == 3

NetUrls ==
    {[scheme |-> "https", host |-> "mmg.whatsapp.net"],
     [scheme |-> "https", host |-> "cdn.example.com"],
     [scheme |-> "http", host |-> "mmg.whatsapp.net"],
     [scheme |-> "ftp", host |-> "files.example.com"]}

\* A 32-byte secret, a 31-byte secret, and the field left out.
NetKeys == {B64Text(43, 0), B64Text(42, 1), <<>>}

NetTypes == {"image", "document", "constructor", "sticker", ""}

Requests == [mediaUrl : NetUrls \cup {NoUrl}, mediaKey : NetKeys, mediaType : NetTypes]

DirectOpts == [retries : (-1)..MaxRetries, retryDelay : {DefaultRetryDelay, 250}]

FailKinds == {"http500", "refused", "timeout"}

\* Bodies built from the sealed encryption of a 1-byte and of an empty file.
BodiesOf(keys, good, empty) ==
    {good, empty, FlipBit(good, 0), Slice(good, 0, 5),
     Seal(keys, Slice(good, MacLen, MacLen + BlockLen - 1))}

BodiesForKey(ek) ==
    IF ek.kind # "return" THEN {<<1, 2, 3>>, Zeros(MacLen + BlockLen)}
    ELSE BodiesOf(ek.keys, Seal(ek.keys, CbcEncrypt(ek.keys, Plaintext(1))),
                  Seal(ek.keys, CbcEncrypt(ek.keys, Plaintext(0))))

\* The bodies the remote endpoint may answer a request with.
Bodies(r) == BodiesForKey(expandMediaKey(r.mediaKey, r.mediaType))

\* The ways one fetch of r.mediaUrl can settle.  get: a GET went out.
Outcomes(r) ==
    IF ~Fetchable(r.mediaUrl)
    THEN {[ok |-> FALSE, get |-> FALSE, err |-> FetchError("protocol")]}
    ELSE {[ok |-> FALSE, get |-> TRUE, err |-> FetchError(k)] : k \in FailKinds}
         \cup {[ok |-> TRUE, get |-> TRUE, body |-> b] : b \in Bodies(r)}

----------------------------------------------------------------------------
(* FileManager: cleanupOldFiles, the cleanup scheduler and cleanup          *)

\* this.maxFileAge = parseInt(process.env.MAX_FILE_AGE) || 3600000
DefaultMaxFileAge == 3600000

maxFileAge == DefaultMaxFileAge

MaxTicks == 1
MaxFaults == 1
MaxSignals == 2

\* The two entries of tempDir, in the order readdir lists them.
Files == {1, 2}

\* Two slots for cleanupOldFiles calls: one scan, and one overlapping it.
ScanIds == {1, 2}

\* Date.now() when the server starts.
StartTime == DefaultMaxFileAge + 10

\* mtimes of the files found at start: older than maxFileAge, exactly
\* maxFileAge old, and fresh.
InitialMtimes == {StartTime - maxFileAge - 1, StartTime - maxFileAge, StartTime}

NoFile == [exists |-> FALSE, mtime |-> 0]

\* fs.readdir(this.tempDir)
Readdir(dir, fault) ==
    IF fault THEN Throw("Error", "EACCES")
    ELSE [kind |-> "return",
          files |-> SelectSeq([f \in Files |-> f], LAMBDA f : dir[f].exists)]

\* fs.stat(filePath)
Stat(dir, f, fault) ==
    IF fault THEN Throw("Error", "EACCES")
    ELSE IF ~dir[f].exists THEN Throw("Error", "ENOENT")
    ELSE [kind |-> "return", mtime |-> dir[f].mtime]

\* fs.unlink(filePath)
Unlink(dir, f, fault) ==
    IF fault THEN Throw("Error", "EACCES")
    ELSE IF ~dir[f].exists THEN Throw("Error", "ENOENT")
    ELSE [kind |-> "return"]

\* Mutant of ShouldDelete: files exactly maxFileAge old are deleted too.
ShouldDelete_AtLeast(now, mtime, age) == now - mtime >= age

\* now - stats.mtime.getTime() > this.maxFileAge
ShouldDelete(now, mtime, age) == now - mtime > age

IdleScan ==
    [pc |-> "idle", origin |-> "none", files |-> <<>>, now |-> 0, i |-> 0,
     cleanedCount |-> 0, visited |-> <<>>]

\* A call of cleanupOldFiles up to its await of readdir.
StartScan(origin) == [IdleScan EXCEPT !.pc = "readdir", !.origin = origin]

\* End of one iteration of `for (const file of files)`: the next entry, or
\* the end of the loop.
Advance(scan, outcome) ==
    [scan EXCEPT !.visited = Append(@, [file |-> scan.files[scan.i],
                                         outcome |-> outcome]),
                 !.i = @ + 1,
                 !.pc = IF scan.i + 1 > Len(scan.files) THEN "done" ELSE "stat"]

\* The outer catch: the error is logged and cleanupOldFiles resolves.
OuterCatch(scan, error) == [scan EXCEPT !.pc = "done"]

\* Mutant of EntryCatch: the error of one entry leaves the loop.
EntryCatch_Rethrow(scan, error) == OuterCatch(scan, error)

\* The inner catch: `continue`.
EntryCatch(scan, error) == Advance(scan, "skipped")

\* cleanupOldFiles after readdir settled: now is sampled, the loop starts.
AfterReaddir(scan, listing, now) ==
    IF listing.kind = "throw" THEN OuterCatch(scan, listing)
    ELSE IF listing.files = <<>>
    THEN [scan EXCEPT !.now = now, !.pc = "done"]
    ELSE [scan EXCEPT !.files = listing.files, !.now = now, !.i = 1, !.pc = "stat"]

\* The loop body after fs.stat settled.
AfterStat(scan, stats, age) ==
    IF stats.kind = "throw" THEN EntryCatch(scan, stats)
    ELSE IF ShouldDelete(scan.now, stats.mtime, age)
    THEN [scan EXCEPT !.pc = "unlink"]
    ELSE Advance(scan, "kept")

\* The loop body after fs.unlink settled.
AfterUnlink(scan, r) ==
    IF r.kind = "throw" THEN EntryCatch(scan, r)
    ELSE Advance([scan EXCEPT !.cleanedCount = @ + 1], "deleted")

\* The entry points the server is started from: src/src/index.js registers
\* no signal handler, the index.js of part_002 registers gracefulShutdown
\* for SIGTERM and SIGINT.
Variants == {"index.js", "part_002"}

RunningProc(variant) ==
    [variant |-> variant, state |-> "running", signals |-> 0, drains |-> 0,
     closing |-> 0, closeFailed |-> FALSE, exitCode |-> 0]

\* process.exit(code)
Exit(p, code) == [p EXCEPT !.state = "exited", !.exitCode = code]

\* gracefulShutdown up to its await of FileManager.cleanup().
BeginShutdown(p) == [p EXCEPT !.signals = @ + 1, !.drains = @ + 1]

\* Default disposition of SIGTERM: the process is killed, exit status 128+15.
KilledBySignal(p) == Exit([p EXCEPT !.signals = @ + 1], 143)

\* gracefulShutdown after `await FileManager.cleanup()`: when the scan that
\* just settled is a drain, fastify.close() is called and awaited.
AfterCleanup(p, scan) ==
    IF scan.pc = "done" /\ scan.origin = "drain"
    THEN [p EXCEPT !.closing = @ + 1]
    ELSE p

\* gracefulShutdown after fastify.close() settled.
AfterClose(p, ok) ==
    IF ok THEN Exit(p, 0)
    ELSE Exit([p EXCEPT !.closeFailed = TRUE], 1)

\* Nothing has interfered with the scans yet.
NoInterference == [touched |-> FALSE, faults |-> 0]

\* The reaper part of the state while no file is staged and nothing runs.
ReapIdle ==
    /\ fsDir = [f \in Files |-> NoFile]
    /\ fs0 = [f \in Files |-> NoFile]
    /\ clock = StartTime
    /\ scans = [s \in ScanIds |-> IdleScan]
    /\ env = NoInterference
    /\ proc = RunningProc("index.js")

----------------------------------------------------------------------------
(* SpecKey: expandMediaKey and secureKeyCleanup called directly            *)

NoRequest == [mediaUrl |-> NoUrl, mediaKey |-> <<>>, mediaType |-> ""]

Undefined == [kind |-> "undefined"]

\* No request in progress.
NetIdle ==
    /\ caller = "none"
    /\ req = NoRequest
    /\ opts = [retries |-> DefaultRetries, retryDelay |-> DefaultRetryDelay]
    /\ pc = "idle"
    /\ attempt = 0
    /\ lastError = Undefined
    /\ log = <<>>
    /\ sleeps = <<>>
    /\ dl = NoResult
    /\ hk = NoHandlerKeys
    /\ resp = NoResult

InitKey ==
    /\ kIn \in KeyInputs
    /\ kCalls = <<>>
    /\ kClean = NoKeys
    /\ kLook = NoResult
    /\ dIn = NoResult
    /\ dOut = NoResult
    /\ NetIdle
    /\ ReapIdle

CallExpand ==
    /\ Len(kCalls) < MaxCalls
    /\ kClean = NoKeys
    /\ kCalls' = Append(kCalls, expandMediaKey(kIn.key, kIn.type))
    /\ UNCHANGED <<kIn, kClean, kLook, decVars, netVars, reapVars>>

CallCleanup ==
    /\ kCalls # <<>>
    /\ kCalls[Len(kCalls)].kind = "return"
    /\ kClean = NoKeys
    /\ kClean' = [kind |-> "cleaned",
                  keys |-> secureKeyCleanup(kCalls[Len(kCalls)].keys),
                  \* the 112-byte expansion buffer, which the slices copied from
                  okm  |-> kCalls[Len(kCalls)].okm]
    /\ UNCHANGED <<kIn, kCalls, kLook, decVars, netVars, reapVars>>

\* getContentType and getFileExtension called on the media type under test.
CallLookup ==
    /\ kLook = NoResult
    /\ kLook' = [kind |-> "return",
                 contentType |-> getContentType(kIn.type),
                 extension   |-> getFileExtension(kIn.type)]
    /\ UNCHANGED <<kIn, kCalls, kClean, decVars, netVars, reapVars>>

NextKey == CallExpand \/ CallCleanup \/ CallLookup

SpecKey == InitKey /\ [][NextKey]_vars

----------------------------------------------------------------------------
(* SpecDecrypt: decryptData called directly                                 *)

InitDecrypt ==
    /\ dIn \in DecInputs
    /\ dOut = NoResult
    /\ kIn = NoResult
    /\ kCalls = <<>>
    /\ kClean = NoKeys
    /\ kLook = NoResult
    /\ NetIdle
    /\ ReapIdle

CallDecrypt ==
    /\ dIn # NoResult
    /\ dOut = NoResult
    /\ dOut' = decryptData(dIn.payload, dIn.keys)
    /\ UNCHANGED <<dIn, keyVars, netVars, reapVars>>

NextDecrypt == CallDecrypt

SpecDecrypt == InitDecrypt /\ [][NextDecrypt]_vars

----------------------------------------------------------------------------
(* Spec: the request handlers and downloadMedia                             *)

Init ==
    /\ kIn = NoResult
    /\ kCalls = <<>>
    /\ kClean = NoKeys
    /\ kLook = NoResult
    /\ dIn = NoResult
    /\ dOut = NoResult
    /\ NetIdle
    /\ ReapIdle

FinishWith(download, h) ==
    /\ pc' = "done"
    /\ dl' = download
    /\ resp' = h.resp
    /\ hk' = h.hk

\* What the caller of downloadMedia does with its result: the index.js
\* handler runs on to its reply, a direct caller just holds it.
Finish(download) ==
    FinishWith(download,
               IF caller' = "index" THEN IndexAfterDownload(req', download)
               ELSE [resp |-> NoResult, hk |-> NoHandlerKeys])

\* attempt++ and the loop test; leaving the loop reaches the final throw.
NextIteration(lastErr) ==
    /\ attempt' = attempt + 1
    /\ IF LoopCond(attempt + 1, opts.retries)
       THEN pc' = "attempt" /\ UNCHANGED <<dl, resp, hk>>
       ELSE Finish(ThrowAfterLoop(opts.retries, lastErr))

\* downloadMedia(mediaUrl, options) up to its first await.
BeginDownload ==
    /\ attempt' = 1
    /\ lastError' = Undefined
    /\ log' = <<>>
    /\ sleeps' = <<>>
    /\ IF LoopCond(1, opts'.retries)
       THEN pc' = "attempt" /\ UNCHANGED <<dl, resp, hk>>
       ELSE Finish(ThrowAfterLoop(opts'.retries, Undefined))

\* POST /api/v1/decrypt (index.js) up to the first await of downloadMedia.
IndexRequest(r) ==
    /\ pc = "idle"
    /\ caller' = "index"
    /\ req' = r
    /\ opts' = [retries |-> IndexRetries, retryDelay |-> DefaultRetryDelay]
    /\ IF MissingFields(r)
       THEN /\ pc' = "done"
            /\ resp' = MissingFieldsReply
            /\ UNCHANGED <<attempt, lastError, log, sleeps, dl, hk>>
       ELSE BeginDownload
    /\ UNCHANGED <<keyVars, decVars, reapVars>>

\* MediaDownload.downloadMedia called on its own.
DirectDownload(u, o) ==
    /\ pc = "idle"
    /\ caller' = "direct"
    /\ req' = [NoRequest EXCEPT !.mediaUrl = u]
    /\ opts' = o
    /\ BeginDownload
    /\ UNCHANGED <<keyVars, decVars, reapVars>>

\* MediaDownload.validateUrl called on its own.
DirectValidateUrl(u) ==
    /\ pc = "idle"
    /\ caller' = "validate"
    /\ req' = [NoRequest EXCEPT !.mediaUrl = u]
    /\ pc' = "done"
    /\ dl' = validateUrl(u)
    /\ UNCHANGED <<opts, attempt, lastError, log, sleeps, hk, resp, keyVars, decVars, reapVars>>

\* The awaited fetch (and body read) of the current attempt settles; the
\* rest of the loop iteration runs.
FetchSettles(outcome) ==
    /\ pc = "attempt"
    /\ UNCHANGED <<caller, req, opts>>
    /\ log' = Append(log, outcome)
    /\ LET step == AttemptStep(attempt, opts.retries, opts.retryDelay, outcome)
       IN  IF step.exit = "return"
           THEN /\ Finish([kind |-> "bytes", data |-> step.value])
                /\ UNCHANGED <<attempt, lastError, sleeps>>
           ELSE /\ lastError' = [kind |-> "error", err |-> step.error]
                /\ IF step.sleeps
                   THEN /\ pc' = "sleep"
                        /\ sleeps' = Append(sleeps, step.delay)
                        /\ UNCHANGED <<attempt, dl, resp, hk>>
                   ELSE /\ NextIteration(lastError')
                        /\ UNCHANGED sleeps
    /\ UNCHANGED <<keyVars, decVars, reapVars>>

\* The backoff timer fires.
SleepDone ==
    /\ pc = "sleep"
    /\ UNCHANGED <<caller, req, opts>>
    /\ NextIteration(lastError)
    /\ UNCHANGED <<lastError, log, sleeps, keyVars, decVars, reapVars>>

\* routes/media handler after expandMediaKey, up to the await of its fetch.
MediaAfterExpand(expandedKey) ==
    IF expandedKey.kind = "throw"
    THEN pc' = "done" /\ resp' = MediaErrorReply(expandedKey) /\ UNCHANGED hk
    ELSE /\ pc' = "mfetch"
         /\ hk' = [created |-> TRUE, cleanups |-> 0, keys |-> expandedKey.keys]
         /\ UNCHANGED resp

\* POST /decrypt (routes/media): schema check, expandMediaKey, then up to
\* the await of its single fetch.
MediaRequest(r) ==
    /\ pc = "idle"
    /\ caller' = "media"
    /\ req' = r
    /\ IF ~MediaSchemaOk(r)
       THEN pc' = "done" /\ resp' = SchemaReply /\ UNCHANGED hk
       ELSE MediaAfterExpand(expandMediaKey(r.mediaKey, r.mediaType))
    /\ UNCHANGED <<opts, attempt, lastError, log, sleeps, dl, keyVars, decVars, reapVars>>

\* The fetch of the routes/media handler settles; the handler runs to its reply.
MediaFetchSettles(outcome) ==
    /\ pc = "mfetch"
    /\ log' = Append(log, outcome)
    /\ FinishWith(dl, MediaAfterFetch(req, hk, outcome))
    /\ UNCHANGED <<caller, req, opts, attempt, lastError, sleeps, keyVars, decVars, reapVars>>

Next ==
    \/ \E r \in Requests : IndexRequest(r)
    \/ \E r \in Requests : MediaRequest(r)
    \/ \E u \in NetUrls, o \in DirectOpts : DirectDownload(u, o)
    \/ \E u \in NetUrls \cup {NoUrl} : DirectValidateUrl(u)
    \/ \E o \in Outcomes(req) : FetchSettles(o)
    \/ \E o \in Outcomes(req) : MediaFetchSettles(o)
    \/ SleepDone

Spec == Init /\ [][Next]_vars

\* Spec with progress: every setTimeout fires, and every awaited fetch
\* settles (node-fetch rejects at the latest when the `timeout` option
\* expires).  A fetch is awaited exactly while pc is "attempt" or "mfetch",
\* so its settling is stated as pc leaving these values again and again.
SpecLive ==
    /\ Spec
    /\ WF_vars(SleepDone)
    /\ []<>(pc # "attempt")
    /\ []<>(pc # "mfetch")

----------------------------------------------------------------------------
(* SpecReaper: the cleanup scheduler, concurrent removals, and shutdown     *)

InitReaper ==
    /\ kIn = NoResult
    /\ kCalls = <<>>
    /\ kClean = NoKeys
    /\ kLook = NoResult
    /\ dIn = NoResult
    /\ dOut = NoResult
    /\ NetIdle
    /\ fsDir \in [Files -> {[exists |-> TRUE, mtime |-> t] : t \in InitialMtimes}]
    /\ fs0 = fsDir
    /\ clock = StartTime
    /\ scans = [s \in ScanIds |-> IdleScan]
    /\ env = NoInterference
    /\ proc \in {RunningProc(v) : v \in Variants}

Running == proc.state = "running"

HasFreeSlot == \E s \in ScanIds : scans[s].pc = "idle"

FreeSlot == CHOOSE s \in ScanIds :
                scans[s].pc = "idle" /\ \A t \in ScanIds : scans[t].pc = "idle" => s <= t

FaultOk(fault) == fault => env.faults < MaxFaults

EnvAfter(fault) == IF fault THEN [env EXCEPT !.faults = @ + 1] ELSE env

\* The setInterval callback fires: cleanupOldFiles is called, not awaited.
TimerTick ==
    /\ Running
    /\ HasFreeSlot
    /\ scans' = [scans EXCEPT ![FreeSlot] = StartScan("timer")]
    /\ UNCHANGED <<fsDir, fs0, clock, env, proc, keyVars, decVars, netVars>>

\* The readdir of scan s settles.
ReaddirSettles(s, fault) ==
    /\ Running
    /\ scans[s].pc = "readdir"
    /\ FaultOk(fault)
    /\ scans' = [scans EXCEPT ![s] = AfterReaddir(@, Readdir(fsDir, fault), clock)]
    /\ env' = EnvAfter(fault)
    /\ proc' = AfterCleanup(proc, scans'[s])
    /\ UNCHANGED <<fsDir, fs0, clock, keyVars, decVars, netVars>>

\* The stat of the current entry of scan s settles.
StatSettles(s, fault) ==
    /\ Running
    /\ scans[s].pc = "stat"
    /\ FaultOk(fault)
    /\ scans' = [scans EXCEPT ![s] =
                    AfterStat(@, Stat(fsDir, scans[s].files[scans[s].i], fault), maxFileAge)]
    /\ env' = EnvAfter(fault)
    /\ proc' = AfterCleanup(proc, scans'[s])
    /\ UNCHANGED <<fsDir, fs0, clock, keyVars, decVars, netVars>>

\* The unlink of the current entry of scan s settles.
UnlinkSettles(s, fault) ==
    /\ Running
    /\ scans[s].pc = "unlink"
    /\ FaultOk(fault)
    /\ fsDir' = IF Unlink(fsDir, scans[s].files[scans[s].i], fault).kind = "return"
                THEN [fsDir EXCEPT ![scans[s].files[scans[s].i]] = NoFile]
                ELSE fsDir
    /\ scans' = [scans EXCEPT ![s] =
                    AfterUnlink(@, Unlink(fsDir, scans[s].files[scans[s].i], fault))]
    /\ env' = EnvAfter(fault)
    /\ proc' = AfterCleanup(proc, scans'[s])
    /\ UNCHANGED <<fs0, clock, keyVars, decVars, netVars>>

\* Another actor removes a staged file.
ExternalRemove(f) ==
    /\ Running
    /\ fsDir[f].exists
    /\ fsDir' = [fsDir EXCEPT ![f] = NoFile]
    /\ env' = [env EXCEPT !.touched = TRUE]
    /\ UNCHANGED <<fs0, clock, scans, proc, keyVars, decVars, netVars>>

\* Another actor rewrites a staged file between a scan's fs.stat of it and
\* the fs.unlink that follows: its mtime becomes the current time.  (A rewrite
\* at any other moment is seen by the next fs.stat, which then finds the file
\* as fresh as the fresh ones of InitialMtimes.)
ExternalWrite(f) ==
    /\ Running
    /\ \E s \in ScanIds : scans[s].pc = "unlink" /\ scans[s].files[scans[s].i] = f
    /\ fsDir[f].exists
    /\ fsDir' = [fsDir EXCEPT ![f].mtime = clock]
    /\ env' = [env EXCEPT !.touched = TRUE]
    /\ UNCHANGED <<fs0, clock, scans, proc, keyVars, decVars, netVars>>

\* A millisecond passes.
ClockTick ==
    /\ Running
    /\ clock < StartTime + MaxTicks
    /\ clock' = clock + 1
    /\ UNCHANGED <<fsDir, fs0, scans, env, proc, keyVars, decVars, netVars>>

\* SIGTERM or SIGINT is delivered.
Signal ==
    /\ Running
    /\ proc.signals < MaxSignals
    /\ IF proc.variant = "part_002"
       THEN /\ HasFreeSlot
            /\ proc' = BeginShutdown(proc)
            /\ scans' = [scans EXCEPT ![FreeSlot] = StartScan("drain")]
       ELSE /\ proc' = KilledBySignal(proc)
            /\ UNCHANGED scans
    /\ UNCHANGED <<fsDir, fs0, clock, env, keyVars, decVars, netVars>>

\* An awaited fastify.close() settles.
CloseSettles(ok) ==
    /\ Running
    /\ proc.closing > 0
    /\ proc' = AfterClose(proc, ok)
    /\ UNCHANGED <<fsDir, fs0, clock, scans, env, keyVars, decVars, netVars>>

NextReaper ==
    \/ TimerTick
    \/ \E s \in ScanIds, fault \in BOOLEAN : ReaddirSettles(s, fault)
    \/ \E s \in ScanIds, fault \in BOOLEAN : StatSettles(s, fault)
    \/ \E s \in ScanIds, fault \in BOOLEAN : UnlinkSettles(s, fault)
    \/ \E f \in Files : ExternalRemove(f)
    \/ \E f \in Files : ExternalWrite(f)
    \/ ClockTick
    \/ Signal
    \/ \E ok \in BOOLEAN : CloseSettles(ok)

SpecReaper == InitReaper /\ [][NextReaper]_vars

----------------------------------------------------------------------------
(* Properties                                                               *)

AllFailed == Len(log) > 0 /\ \A i \in 1..Len(log) : ~log[i].ok

NoGet == \A i \in 1..Len(log) : ~log[i].get

\* Index of the first fully received response in log, 0 when there is none.
FirstOk ==
    IF \E i \in 1..Len(log) : log[i].ok
    THEN CHOOSE i \in 1..Len(log) : log[i].ok /\ \A j \in 1..(i - 1) : ~log[j].ok
    ELSE 0

\* C1: every decrypt request that created a key set has had
\* secureKeyCleanup invoked exactly once on it when the handler replies,
\* whatever the reply (success or error).
C1_WipedOnceBeforeReply ==
    (caller \in {"index", "media"} /\ resp.kind = "reply" /\ hk.created)
        => hk.cleanups = 1

\* C2: when every attempt of downloadMedia failed, exactly `retries`
\* attempts were made (never more at any time), each a GET when the URL is
\* fetchable, and the call ended with a NetworkError whose originalError is
\* the error of the last attempt.
C2_ExhaustedRetries ==
    (caller \in {"direct", "index"} /\ opts.retries >= 1)
        => /\ Len(log) <= opts.retries
           /\ Fetchable(req.mediaUrl) => \A i \in 1..Len(log) : log[i].get
           /\ (pc = "done" /\ AllFailed)
                => /\ Len(log) = opts.retries
                   /\ dl.kind = "throw"
                   /\ dl.errType = "NetworkError"
                   /\ dl.originalError = log[Len(log)].err

\* C2 witness: the index.js handler used up its 3 attempts, the first and
\* the last failing differently, and replied 502.
C2_Witness ==
    /\ caller = "index"
    /\ pc = "done"
    /\ Len(log) = 3
    /\ AllFailed
    /\ log[1].err # log[3].err
    /\ dl.originalError = log[3].err
    /\ resp.status = 502

\* C3: once attempt k is the first to receive its response in full,
\* downloadMedia has returned that response's bytes: k attempts and k - 1
\* sleeps were made, none follows, and no earlier failure is surfaced.
C3_FirstSuccessReturns ==
    (caller \in {"direct", "index"} /\ FirstOk > 0)
        => /\ Len(log) = FirstOk
           /\ Len(sleeps) = FirstOk - 1
           /\ pc = "done"
           /\ dl.kind = "bytes"
           /\ dl.data = log[FirstOk].body
           /\ caller = "index" => (resp.kind = "reply" /\ resp.status # 502)

\* C3 witness: the third attempt of a direct call succeeded after two
\* failures, with a body too short to be a media file.
C3_Witness ==
    /\ caller = "direct"
    /\ pc = "done"
    /\ Len(log) = 3
    /\ ~log[1].ok
    /\ ~log[2].ok
    /\ log[3].ok
    /\ Len(log[3].body) < 10
    /\ dl.kind = "bytes"
    /\ sleeps = <<opts.retryDelay, 2 * opts.retryDelay>>

\* A request the ValidationError taxonomy covers: secret not 32 bytes,
\* category not one of the four, or URL scheme not https.
InvalidRequest(r) ==
    \/ Len(Base64Decode(r.mediaKey)) # 32
    \/ r.mediaType \notin {"image", "video", "audio", "document"}
    \/ r.mediaUrl.scheme # "https"

\* C4: no GET is issued for a decrypt request whose secret, category or URL
\* scheme is invalid.
C4_ValidationBeforeNetwork ==
    (caller \in {"index", "media"} /\ InvalidRequest(req)) => NoGet

\* C5: every expandMediaKey call on a secret that does not decode to 32
\* bytes, or on a category outside the four, throws a ValidationError.
C5_ExpandRejectsWithValidationError ==
    (\/ Len(Base64Decode(kIn.key)) # 32
     \/ kIn.type \notin {"image", "video", "audio", "document"})
        => \A i \in 1..Len(kCalls) :
              kCalls[i].kind = "throw" /\ kCalls[i].errType = "ValidationError"

RECURSIVE PopCount(_, _)
PopCount(x, n) == IF n = 0 THEN 0 ELSE (x % 2) + PopCount(x \div 2, n - 1)

RECURSIVE BitDistanceFrom(_, _, _)
BitDistanceFrom(a, b, i) ==
    IF i > Len(a) THEN 0
    ELSE PopCount(Xor8(a[i], b[i]), 8) + BitDistanceFrom(a, b, i + 1)

\* Number of bits in which the 10-byte tag of dIn.payload differs from the
\* expected tag.
TagBitDistance ==
    BitDistanceFrom(SubSeq(dIn.payload, 1, 10),
                    SubSeq(HmacSha256(dIn.keys.macKey.bytes,
                                      SubSeq(dIn.payload, 11, Len(dIn.payload))), 1, 10),
                    1)

\* C6: decryptData ends with a DecryptionError when the payload is shorter
\* than 10 bytes, when its tag differs from the expected tag in exactly one
\* bit, and when the ciphertext length is not a multiple of 16.
C6_DecryptionErrorOnly ==
    (/\ dOut # NoResult
     /\ \/ Len(dIn.payload) < 10
        \/ (Len(dIn.payload) - 10) % 16 # 0
        \/ TagBitDistance = 1)
        => dOut.kind = "throw" /\ dOut.errType = "DecryptionError"

\* C6 witness: a payload with a correct tag over a ciphertext that is not
\* block aligned reached the cipher and ended in a DecryptionError.
C6_Witness ==
    /\ dOut # NoResult
    /\ Len(dIn.payload) >= 10
    /\ (Len(dIn.payload) - 10) % 16 # 0
    /\ TagBitDistance = 0
    /\ dOut.cipherStarted
    /\ dOut.errType = "DecryptionError"

\* C7: decryptData returns exactly P for the payload made of the first 10
\* bytes of HMAC(macKey, C) followed by C = CBC/PKCS7 encryption of P.
C7_RoundTrip ==
    (/\ dOut # NoResult
     /\ dIn.payload = Seal(dIn.keys, CbcEncrypt(dIn.keys, dIn.plain)))
        => dOut.kind = "return" /\ dOut.data = dIn.plain

\* C7 witness: the round trip of the empty plaintext under the key set of
\* (32 zero bytes, "document").
C7_Witness ==
    /\ dOut # NoResult
    /\ dIn.keys = expandMediaKey(B64Text(43, 0), "document").keys
    /\ dIn.plain = <<>>
    /\ dIn.payload = Seal(dIn.keys, CbcEncrypt(dIn.keys, <<>>))
    /\ Len(dIn.payload) = 26
    /\ dOut.data = <<>>

C9_AllZeroAfterCleanup ==
    kClean.kind = "cleaned"
        => /\ AllZero(kClean.keys.cipherKey.bytes)
           /\ AllZero(kClean.keys.macKey.bytes)
           /\ AllZero(kClean.keys.iv.bytes)
           /\ AllZero(SubSeq(kClean.okm, 81, 112))

\* C10: the fetcher issues no GET for a URL whose scheme is not https and
\* ends such a call with a ValidationError, while an https URL with a host
\* outside the allowlist is not rejected.
C10_SchemeCheckedBeforeFetch ==
    (caller \in {"direct", "index"} /\ ~MissingFields(req) /\ req.mediaUrl # NoUrl)
        => /\ req.mediaUrl.scheme # "https"
                => /\ NoGet
                   /\ pc = "done" => (dl.kind = "throw" /\ dl.errType = "ValidationError")
           /\ (req.mediaUrl.scheme = "https" /\ pc = "done")
                => ~(dl.kind = "throw" /\ dl.errType = "ValidationError")

\* The configured maximum response size of the design, scaled to the
\* payloads of this model (a sealed one-block file is 26 bytes).
maxResponseSize == 20

\* C11: downloadMedia never returns more bytes than the configured maximum
\* response size; a larger response ends the call with a NetworkError.
C11_ResponseSizeCapped ==
    (caller \in {"direct", "index"} /\ pc = "done")
        => /\ dl.kind = "bytes" => Len(dl.data) <= maxResponseSize
           /\ (FirstOk > 0 /\ Len(log[FirstOk].body) > maxResponseSize)
                => (dl.kind = "throw" /\ dl.errType = "NetworkError")

\* C12: the lookup tables return image/jpeg and jpg for image, video/mp4
\* and mp4 for video, audio/mpeg and mp3 for audio, and
\* application/octet-stream and bin for document.
C12_LookupTables ==
    kLook.kind = "return"
        => /\ kIn.type = "image"
                => (kLook.contentType = "image/jpeg" /\ kLook.extension = "jpg")
           /\ kIn.type = "video"
                => (kLook.contentType = "video/mp4" /\ kLook.extension = "mp4")
           /\ kIn.type = "audio"
                => (kLook.contentType = "audio/mpeg" /\ kLook.extension = "mp3")
           /\ kIn.type = "document"
                => (kLook.contentType = "application/octet-stream"
                    /\ kLook.extension = "bin")

\* C13: getContentType and getFileExtension called with a category outside
\* the four end in a ValidationError and return nothing.
C13_LookupRejectsUnknown ==
    (kLook # NoResult /\ kIn.type \notin {"image", "video", "audio", "document"})
        => (kLook.kind = "throw" /\ kLook.errType = "ValidationError")

\* What the caller reads in a failure response.
ExternalText(reply) == <<reply.error, reply.message, reply.details, reply.embeds>>

\* The failure response the handler that is running sends for error e.
ReplyOf(e) == IF caller = "index" THEN IndexErrorReply(e) ELSE MediaErrorReply(e)

\* Errors of each kind, with different internal messages, that the handlers
\* can catch: s is the status the kind is answered with.
SameKindErrors(s) ==
    IF s = 502
    THEN {ThrowAfterLoop(IndexRetries, [kind |-> "error", err |-> FetchError(k)]) :
            k \in FailKinds}
    ELSE IF s = 422
    THEN {decryptData(<<>>, NoKeys), expandMediaKey(B64Text(43, 0), "constructor")}
    ELSE IF s = 400
    THEN {expandMediaKey(B64Text(42, 1), "image"), expandMediaKey(B64Text(40, 1), "image")}
    ELSE {}

\* C15: the external text of a failure response sent by a handler's catch
\* block is the same for every error of the response's kind, whatever the
\* error's internal message.
C15_ExternalMessageByKind ==
    (/\ caller \in {"index", "media"}
     /\ resp.kind = "reply"
     /\ resp.status >= 400
     /\ resp \notin {MissingFieldsReply, SchemaReply})
        => \A e \in SameKindErrors(resp.status) :
              ExternalText(ReplyOf(e)) = ExternalText(resp)

RECURSIVE SumSeq(_, _)
SumSeq(q, i) == IF i > Len(q) THEN 0 ELSE q[i] + SumSeq(q, i + 1)

\* C16: the i-th sleep of downloadMedia lasts retryDelay * i, no sleep
\* follows the last attempt, and when all `retries` attempts failed the
\* sleeps sum up to retryDelay * (1 + 2 + ... + (retries - 1)).
C16_LinearBackoff ==
    (caller \in {"direct", "index"} /\ opts.retries >= 1)
        => /\ \A i \in 1..Len(sleeps) : sleeps[i] = opts.retryDelay * i
           /\ Len(sleeps) <= opts.retries - 1
           /\ Len(sleeps) <= Len(log)
           /\ pc = "sleep" => Len(sleeps) = Len(log)
           /\ (pc = "done" /\ AllFailed)
                => /\ Len(sleeps) = opts.retries - 1
                   /\ 2 * SumSeq(sleeps, 1)
                        = opts.retryDelay * (opts.retries - 1) * opts.retries

\* C16 witness: a direct call with retries 3 and retryDelay 250 failed three
\* times after sleeping 250 and 500.
C16_Witness ==
    /\ caller = "direct"
    /\ pc = "done"
    /\ opts = [retries |-> 3, retryDelay |-> 250]
    /\ AllFailed
    /\ Len(log) = 3
    /\ sleeps = <<250, 500>>
    /\ SumSeq(sleeps, 1) = 750

\* The 10-byte tag of dIn.payload is the expected one.
TagMatches ==
    SubSeq(dIn.payload, 1, 10)
        = SubSeq(HmacSha256(dIn.keys.macKey.bytes,
                            SubSeq(dIn.payload, 11, Len(dIn.payload))), 1, 10)

\* C17: decryptData on a payload shorter than 10 bytes, or with a tag other
\* than the expected one, ends in a DecryptionError without the cipher
\* having been started; a started cipher means the tag matched.
C17_NoCipherBeforeTagCheck ==
    dOut # NoResult
        => /\ (Len(dIn.payload) < 10 \/ ~TagMatches)
                => /\ dOut.kind = "throw"
                   /\ dOut.errType = "DecryptionError"
                   /\ ~dOut.cipherStarted
           /\ dOut.cipherStarted => (Len(dIn.payload) >= 10 /\ TagMatches)

\* C17 witness: a block-aligned ciphertext of 16 bytes under a tag with one
\* flipped bit was rejected before the cipher.
C17_Witness ==
    /\ dOut # NoResult
    /\ Len(dIn.payload) = 26
    /\ TagBitDistance = 1
    /\ dOut.errType = "DecryptionError"
    /\ ~dOut.cipherStarted

\* C18: every DecryptionError of decryptData on a payload of at least 10
\* bytes (tag mismatch, bad padding, misaligned ciphertext) carries the
\* wording of a tag mismatch.
C18_SameWordingAsMacMismatch ==
    (dOut # NoResult /\ dOut.kind = "throw" /\ Len(dIn.payload) >= 10)
        => dOut.msg = DecryptCatch(AfterMacCheck([kind |-> "return", data |-> FALSE],
                                                 <<>>, dIn.keys)).msg

\* Scan s is the only cleanupOldFiles call made so far.
OnlyScan(s) == \A t \in ScanIds \ {s} : scans[t].pc = "idle"

\* No other actor removed a file and no I/O fault occurred.
Undisturbed == ~env.touched /\ env.faults = 0

\* C14: in a directory nothing else touches, a scan removes an entry only
\* when now - mtime > maxFileAge for the scan's sampled now, and once the
\* scan is over exactly those entries are gone; every other entry is as it
\* was.
C14_DeletesExactlyTheOld ==
    \A s \in ScanIds :
        (scans[s].pc \in {"stat", "unlink", "done"} /\ OnlyScan(s) /\ Undisturbed)
            => \A f \in Files :
                  /\ fsDir[f] # fs0[f]
                        => (~fsDir[f].exists /\ scans[s].now - fs0[f].mtime > maxFileAge)
                  /\ (scans[s].pc = "done" /\ scans[s].now - fs0[f].mtime > maxFileAge)
                        => ~fsDir[f].exists

\* C14 witness: a lone scan is over; it removed the file older than
\* maxFileAge and kept the one exactly maxFileAge old at its now, although
\* the clock has moved on since.
C14_Witness ==
    /\ scans[1].pc = "done"
    /\ OnlyScan(1)
    /\ Undisturbed
    /\ scans[1].now - fs0[1].mtime = maxFileAge + 1
    /\ ~fsDir[1].exists
    /\ scans[1].now - fs0[2].mtime = maxFileAge
    /\ fsDir[2] = fs0[2]
    /\ clock > scans[1].now

\* C19: every cleanupOldFiles call runs to its end having visited each
\* entry it listed, in order, whether stat and unlink failed or not.
C19_ScanVisitsEveryEntry ==
    \A s \in ScanIds :
        /\ scans[s].pc \in {"stat", "unlink"}
              => /\ scans[s].i <= Len(scans[s].files)
                 /\ Len(scans[s].visited) = scans[s].i - 1
        /\ scans[s].pc = "done"
              => /\ Len(scans[s].visited) = Len(scans[s].files)
                 /\ \A i \in 1..Len(scans[s].files) :
                       scans[s].visited[i].file = scans[s].files[i]

\* C19 witness: two overlapping scans listed both files; the first removed
\* file 1, the second failed on it, skipped it and went on to remove file 2.
C19_Witness ==
    /\ Undisturbed
    /\ scans[1].visited # <<>>
    /\ scans[1].visited[1] = [file |-> 1, outcome |-> "deleted"]
    /\ scans[2].pc = "done"
    /\ scans[2].visited = <<[file |-> 1, outcome |-> "skipped"],
                            [file |-> 2, outcome |-> "deleted"]>>

\* C20: when the server has shut down (its close not having failed),
\* FileManager.cleanup was invoked exactly once and the exit code is 0.
C20_DrainOnceThenExitZero ==
    (proc.state = "exited" /\ ~proc.closeFailed)
        => (proc.drains = 1 /\ proc.exitCode = 0)

\* C21: a call that has started eventually ends, and a handler eventually
\* replies; downloadMedia makes at most `retries` attempts and throws its
\* NetworkError only when all `retries` attempts have been made and failed.
C21_Terminates ==
    /\ [](caller \in {"direct", "index"} /\ opts.retries >= 1
            => /\ Len(log) <= opts.retries
               /\ attempt <= opts.retries + 1
               /\ (dl.kind = "throw" /\ dl.errType = "NetworkError")
                    => (Len(log) = opts.retries /\ AllFailed))
    /\ (caller # "none") ~> (pc = "done")
    /\ (caller \in {"index", "media"}) ~> (resp.kind = "reply")

\* C21 witness: the index.js handler has replied after a download that took
\* all three attempts, the last one succeeding after two sleeps.
C21_Witness ==
    /\ caller = "index"
    /\ pc = "done"
    /\ resp.kind = "reply"
    /\ Len(log) = IndexRetries
    /\ log[IndexRetries].ok
    /\ Len(sleeps) = 2
    /\ dl.kind = "bytes"

\* C22: a direct call of downloadMedia that is over without bytes has thrown
\* a NetworkError, whatever the retries option.
C22_OnlyNetworkError ==
    (caller = "direct" /\ pc = "done" /\ dl.kind # "bytes")
        => (dl.kind = "throw" /\ dl.errType = "NetworkError")

\* Scan s is awaiting fs.unlink on a file that exists, and this step is that
\* unlink going through.
UnlinkGoesThrough(s) ==
    /\ scans[s].pc = "unlink"
    /\ scans'[s] # scans[s]
    /\ fsDir[scans[s].files[scans[s].i]].exists
    /\ ~fsDir'[scans[s].files[scans[s].i]].exists

\* C23: whenever a scan's unlink removes a file, the file's mtime at that
\* moment is more than maxFileAge before the scan's now, also when a writer
\* rewrites staged files while the scan runs.
C23_NoFreshFileDeleted ==
    [][\A s \in ScanIds :
          UnlinkGoesThrough(s)
              => scans[s].now - fsDir[scans[s].files[scans[s].i]].mtime > maxFileAge]_vars

====
